---------------------------- MODULE Spec2Model ----------------------------
(***************************************************************************)
(* Model of the constant-renaming scripts of ecliptix-desktop:             *)
(*   Scripts/convert-constants-to-uppercase-v2.py   (script "v2")          *)
(*   Scripts/convert-constants-v3.py                (script "v3")          *)
(* Text is a sequence of one-character strings.  The regular expressions   *)
(* of the scripts are modelled by what they match, character by           *)
(* character; a file tree is a function from file names to contents.       *)
(***************************************************************************)
EXTENDS Integers, Sequences, FiniteSets, TLC

VARIABLES
    script,              \* which script runs: "v2", "v3" ("none": converter only)
    disk,                \* file -> content of the .cs file
    bak,                 \* file -> content of the .cs.bak file, or NoFile
    fault,               \* file -> I/O failure the environment raises for it
    pc,                  \* "scan", "apply", "done", "edited", "conv"
    todo,                \* files the running loop has still to visit
    mappings,            \* the dict mappings, in insertion order: <<old, new>> pairs
    files_changed,       \* counter of the rewrite loop
    total_replacements,  \* counter of the rewrite loop (v2)
    run,                 \* number of the current run of the script
    disk0,               \* history: disk when the current run started
    bak0,                \* history: bak when the current run started
    wfailed,             \* history: files whose write raised in the current run
    name,                \* converter: the input identifier
    out,                 \* converter: result of the applications so far
    apps                 \* converter: number of applications so far

vars == <<script, disk, bak, fault, pc, todo, mappings, files_changed,
          total_replacements, run, disk0, bak0, wfailed, name, out, apps>>

runVars == <<script, disk, bak, fault, todo, mappings, files_changed,
             total_replacements, run, disk0, bak0, wfailed>>

convVars == <<name, out, apps>>

--------------------------------------------------------------------------
(* Bounds of the model *)

NumFiles == 2         \* .cs files in the tree
MaxFrags == 3         \* source fragments in the whole tree
MaxFaults == 1        \* files with an I/O fault
MaxRuns == 2          \* runs of the script on the same tree
MaxLen == 4           \* length of a converter input
MaxApps == 2          \* applications of the converter

--------------------------------------------------------------------------
(* Characters and the classes the regular expressions use *)

LowerSeq ==
    <<"a", "b", "c", "d", "e", "f", "g", "h", "i", "j", "k", "l", "m",
      "n", "o", "p", "q", "r", "s", "t", "u", "v", "w", "x", "y", "z">>

UpperSeq ==
    <<"A", "B", "C", "D", "E", "F", "G", "H", "I", "J", "K", "L", "M",
      "N", "O", "P", "Q", "R", "S", "T", "U", "V", "W", "X", "Y", "Z">>

Lower == {LowerSeq[i] : i \in 1..26}

Upper == {UpperSeq[i] : i \in 1..26}

Digit == {"0", "1", "2", "3", "4", "5", "6", "7", "8", "9"}

Letter == Lower \cup Upper

\* [a-z0-9]
LowerOrDigit == Lower \cup Digit

\* \w on ASCII text
Word == Letter \cup Digit \cup {"_"}

\* \s
Space == {" ", "\t", "\n", "\r"}

\* str.upper() on one character
UpperChar(c) ==
    IF c \in Lower THEN UpperSeq[CHOOSE i \in 1..26 : LowerSeq[i] = c] ELSE c

\* the variant of a converter that forgets the final .upper()
KeepCase(s) == s

\* str.upper()
ToUpper(s) == [i \in 1..Len(s) |-> UpperChar(s[i])]

\* the last index of the run of characters of class cls that starts at j
RECURSIVE RunEnd(_, _, _)
RunEnd(s, j, cls) ==
    IF j + 1 <= Len(s) /\ s[j + 1] \in cls THEN RunEnd(s, j + 1, cls) ELSE j

--------------------------------------------------------------------------
(* pascal_to_upper_snake *)

\* re.sub('(.)([A-Z][a-z]+)', r'\1_\2', s), from index i on
RECURSIVE SubCapWordFrom(_, _)
SubCapWordFrom(s, i) ==
    IF i > Len(s) THEN <<>>
    ELSE IF /\ i + 2 <= Len(s)
            /\ s[i] # "\n"
            /\ s[i + 1] \in Upper
            /\ s[i + 2] \in Lower
         THEN LET e == RunEnd(s, i + 2, Lower)
              IN  <<s[i], "_">> \o SubSeq(s, i + 1, e) \o SubCapWordFrom(s, e + 1)
         ELSE <<s[i]>> \o SubCapWordFrom(s, i + 1)

\* the variant '(.)([A-Z][a-z]*)': the + of the second group written as *
RECURSIVE SubCapWordStarFrom(_, _)
SubCapWordStarFrom(s, i) ==
    IF i > Len(s) THEN <<>>
    ELSE IF /\ i + 1 <= Len(s)
            /\ s[i] # "\n"
            /\ s[i + 1] \in Upper
         THEN LET e == RunEnd(s, i + 1, Lower)
              IN  <<s[i], "_">> \o SubSeq(s, i + 1, e) \o SubCapWordStarFrom(s, e + 1)
         ELSE <<s[i]>> \o SubCapWordStarFrom(s, i + 1)

SubCapWordStar(s) == SubCapWordStarFrom(s, 1)

SubCapWord(s) == SubCapWordFrom(s, 1)

\* re.sub('([c1])([c2])', r'\1_\2', s), from index i on
RECURSIVE SubPairFrom(_, _, _, _)
SubPairFrom(s, i, c1, c2) ==
    IF i > Len(s) THEN <<>>
    ELSE IF i + 1 <= Len(s) /\ s[i] \in c1 /\ s[i + 1] \in c2
         THEN <<s[i], "_", s[i + 1]>> \o SubPairFrom(s, i + 2, c1, c2)
         ELSE <<s[i]>> \o SubPairFrom(s, i + 1, c1, c2)

\* re.sub('([a-z0-9])([A-Z])', r'\1_\2', s)
SubCamel(s) == SubPairFrom(s, 1, LowerOrDigit, Upper)

\* re.sub('([a-zA-Z])([0-9])', r'\1_\2', s)
SubLetterDigit(s) == SubPairFrom(s, 1, Letter, Digit)

pascal_to_upper_snake(n) == ToUpper(SubLetterDigit(SubCamel(SubCapWord(n))))

--------------------------------------------------------------------------
(* The converter alone: inputs drawn from bounded sets, applied repeatedly *)

ConvAlphabet == {"a", "A", "1", "_"}

RECURSIVE StringsUpTo(_, _)
StringsUpTo(alphabet, n) ==
    IF n = 0 THEN {<<>>}
    ELSE LET shorter == StringsUpTo(alphabet, n - 1)
         IN  shorter \cup {Append(s, c) : s \in shorter, c \in alphabet}

NoFile == "absent"

InitConv ==
    /\ name \in StringsUpTo(ConvAlphabet, MaxLen) \ {<<>>}
    /\ out = name
    /\ apps = 0
    /\ pc = "conv"
    /\ script = "none"
    /\ disk = <<>>
    /\ bak = <<>>
    /\ fault = <<>>
    /\ todo = {}
    /\ mappings = <<>>
    /\ files_changed = 0
    /\ total_replacements = 0
    /\ run = 0
    /\ disk0 = <<>>
    /\ bak0 = <<>>
    /\ wfailed = {}

Convert ==
    /\ pc = "conv"
    /\ apps < MaxApps
    /\ out' = pascal_to_upper_snake(out)
    /\ apps' = apps + 1
    /\ UNCHANGED <<name, pc, runVars>>

NextConv == Convert

SpecConv == InitConv /\ [][NextConv]_vars

--------------------------------------------------------------------------
(* Phase 1: the const-declaration pattern and the mapping table *)

\* [a-zA-Z<>\[\]]: the type expression of v2's pattern
TypeCharsV2 == Letter \cup {"<", ">", "[", "]"}

\* [\w<>\[\]]: the type expression of v3's pattern
TypeCharsV3 == Word \cup {"<", ">", "[", "]"}

\* [A-Za-z0-9]
LetterOrDigit == Letter \cup Digit

TypeChars(v) == IF v = "v2" THEN TypeCharsV2 ELSE TypeCharsV3

\* first character of the captured identifier: [A-Za-z] (v2), \w (v3)
IdentFirst(v) == IF v = "v2" THEN Letter ELSE Word

\* the following characters: [A-Za-z0-9]* (v2), \w* (v3)
IdentRest(v) == IF v = "v2" THEN LetterOrDigit ELSE Word

IsWordAt(s, p) == p >= 1 /\ p <= Len(s) /\ s[p] \in Word

\* \b between s[p] and s[p + 1]
Boundary(s, p) == IsWordAt(s, p) # IsWordAt(s, p + 1)

HasAt(s, i, cls) == i <= Len(s) /\ s[i] \in cls

ConstKeyword == <<"c", "o", "n", "s", "t">>

\* A match of  \bconst\s+TYPE+\s+(IDENT)\s*=  that starts at index i:
\* <<first index of the identifier, its last index, index of the "=">>,
\* or <<>> when the pattern does not match at i.  Every quantifier is greedy
\* and is followed by a character outside its own class, so the match the
\* regex engine finds is the one that takes each run whole.
MatchDecl(s, i, v) ==
    IF ~ (/\ i + 4 <= Len(s)
          /\ SubSeq(s, i, i + 4) = ConstKeyword
          /\ Boundary(s, i - 1)
          /\ HasAt(s, i + 5, Space))
    THEN <<>>
    ELSE LET t == RunEnd(s, i + 5, Space) + 1 IN
         IF ~ HasAt(s, t, TypeChars(v)) THEN <<>>
         ELSE LET u == RunEnd(s, t, TypeChars(v)) + 1 IN
              IF ~ HasAt(s, u, Space) THEN <<>>
              ELSE LET a == RunEnd(s, u, Space) + 1 IN
                   IF ~ HasAt(s, a, IdentFirst(v)) THEN <<>>
                   ELSE LET aEnd == RunEnd(s, a, IdentRest(v))
                            e == RunEnd(s, aEnd, Space) + 1
                        IN  IF HasAt(s, e, {"="}) THEN <<a, aEnd, e>> ELSE <<>>

\* the leftmost index >= i where the declaration pattern matches, or 0:
\* where the regex engine finds its next match when it scans on from i
RECURSIVE NextDecl(_, _, _)
NextDecl(s, i, v) ==
    IF i > Len(s) THEN 0
    ELSE IF s[i] = "c" /\ MatchDecl(s, i, v) # <<>> THEN i
    ELSE NextDecl(s, i + 1, v)

\* [match.group(1) for match in re.finditer(pattern, content)], from index i on
RECURSIVE FindDeclsFrom(_, _, _)
FindDeclsFrom(s, i, v) ==
    LET j == NextDecl(s, i, v)
    IN  IF j = 0 THEN <<>>
        ELSE LET m == MatchDecl(s, j, v)
             IN  <<SubSeq(s, m[1], m[2])>> \o FindDeclsFrom(s, m[3] + 1, v)

FindDecls(s, v) == FindDeclsFrom(s, 1, v)

\* the variant of the skip test that never skips
NeverUpperCase(old) == FALSE

\* re.match(r'^[A-Z_0-9]+$', old), old an identifier (no newline in it)
IsUpperCase(old) ==
    old # <<>> /\ \A i \in 1..Len(old) : old[i] \in Upper \cup Digit \cup {"_"}

Keys(m) == {m[i][1] : i \in 1..Len(m)}

\* mappings[old] = new: a new key goes last, a known key keeps its place
DictSet(m, old, new) ==
    IF old \in Keys(m)
    THEN [i \in 1..Len(m) |-> IF m[i][1] = old THEN <<old, new>> ELSE m[i]]
    ELSE Append(m, <<old, new>>)

\* the value of key old
DictGet(m, old) == m[CHOOSE i \in 1..Len(m) : m[i][1] = old][2]

\* the body of the loop over the matches, for one captured identifier
Record(m, old) ==
    IF IsUpperCase(old) THEN m
    ELSE LET new == pascal_to_upper_snake(old)
         IN  IF old # new THEN DictSet(m, old, new) ELSE m

RECURSIVE RecordAll(_, _)
RecordAll(m, olds) ==
    IF olds = <<>> THEN m ELSE RecordAll(Record(m, Head(olds)), Tail(olds))

\* the try block of phase 1 for one file that was read
ScanContent(m, content, v) == RecordAll(m, FindDecls(content, v))

--------------------------------------------------------------------------
(* Phase 2: the substitutions *)

\* the literal characters of pat stand at index i
MatchAt(s, i, pat) ==
    /\ i + Len(pat) - 1 <= Len(s)
    /\ s[i] = pat[1]
    /\ SubSeq(s, i, i + Len(pat) - 1) = pat

\* a match of \b old \b at index i
MatchWordAt(s, i, old) ==
    /\ MatchAt(s, i, old)
    /\ Boundary(s, i - 1)
    /\ Boundary(s, i + Len(old) - 1)

\* the leftmost index >= i where \b old \b matches, or 0
RECURSIVE NextWord(_, _, _)
NextWord(s, i, old) ==
    IF i > Len(s) THEN 0
    ELSE IF MatchWordAt(s, i, old) THEN i
    ELSE NextWord(s, i + 1, old)

\* the leftmost index >= i where the literal characters of pat stand, or 0
RECURSIVE NextLiteral(_, _, _)
NextLiteral(s, i, pat) ==
    IF i > Len(s) THEN 0
    ELSE IF MatchAt(s, i, pat) THEN i
    ELSE NextLiteral(s, i + 1, pat)

\* re.sub(r'\b' + re.escape(old) + r'\b', new, s), from index i on
RECURSIVE SubWordFrom(_, _, _, _)
SubWordFrom(s, i, old, new) ==
    LET j == NextWord(s, i, old)
    IN  IF j = 0 THEN SubSeq(s, i, Len(s))
        ELSE SubSeq(s, i, j - 1) \o new \o SubWordFrom(s, j + Len(old), old, new)

\* the variant without the \b anchors: every occurrence of old is replaced
RECURSIVE SubAnywhereFrom(_, _, _, _)
SubAnywhereFrom(s, i, old, new) ==
    LET j == NextLiteral(s, i, old)
    IN  IF j = 0 THEN SubSeq(s, i, Len(s))
        ELSE SubSeq(s, i, j - 1) \o new \o SubAnywhereFrom(s, j + Len(old), old, new)

SubAnywhere(s, old, new) == SubAnywhereFrom(s, 1, old, new)

\* the variant with count=1: only the first match is replaced
SubFirstWord(s, old, new) ==
    LET j == NextWord(s, 1, old)
    IN  IF j = 0 THEN s
        ELSE SubSeq(s, 1, j - 1) \o new \o SubSeq(s, j + Len(old), Len(s))

SubWord(s, old, new) == SubWordFrom(s, 1, old, new)

\* v3: for old, new in mappings.items(): modified = re.sub(...)
RECURSIVE ApplyV3(_, _)
ApplyV3(m, s) ==
    IF m = <<>> THEN s ELSE ApplyV3(Tail(m), SubWord(s, Head(m)[1], Head(m)[2]))

\* v2: r'\\b' + re.escape(old_name) + r'\\b' is a regular expression for the
\* seven-odd characters  \ b old_name \ b : an escaped backslash, then "b"
LiteralPattern(old) == <<"\\", "b">> \o old \o <<"\\", "b">>

\* re.subn(pattern, new, s) for a pattern of literal characters, from index
\* i on: the new text and the number of matches
RECURSIVE SubnLiteralFrom(_, _, _, _)
SubnLiteralFrom(s, i, pat, new) ==
    LET j == NextLiteral(s, i, pat)
    IN  IF j = 0 THEN [text |-> SubSeq(s, i, Len(s)), count |-> 0]
        ELSE LET r == SubnLiteralFrom(s, j + Len(pat), pat, new)
             IN  [text |-> SubSeq(s, i, j - 1) \o new \o r.text,
                  count |-> r.count + 1]

\* v2: the loop over mappings.items() of one file; acc is
\* [text |-> modified_content, count |-> file_replacements]
RECURSIVE ApplyV2(_, _)
ApplyV2(m, acc) ==
    IF m = <<>> THEN acc
    ELSE LET r == SubnLiteralFrom(acc.text, 1, LiteralPattern(Head(m)[1]), Head(m)[2])
         IN  ApplyV2(Tail(m),
                     IF r.count > 0
                     THEN [text |-> r.text, count |-> acc.count + r.count]
                     ELSE acc)

\* modified content and replacement count of one file (v3 counts nothing)
Modify(v, m, original) ==
    IF v = "v2" THEN ApplyV2(m, [text |-> original, count |-> 0])
    ELSE [text |-> ApplyV3(m, original), count |-> 0]

--------------------------------------------------------------------------
(* The file tree: .cs files outside obj/ and bin/, built from fragments *)

\* const int MaxRetryCount = 5;
DeclMaxRetryCount ==
    <<"c", "o", "n", "s", "t", " ", "i", "n", "t", " ", "M", "a", "x", "R", "e",
      "t", "r", "y", "C", "o", "u", "n", "t", " ", "=", " ", "5", ";">>

\* const int Ab=1;
DeclAb ==
    <<"c", "o", "n", "s", "t", " ", "i", "n", "t", " ", "A", "b", "=", "1", ";">>

\* const int AbC=2;
DeclAbC ==
    <<"c", "o", "n", "s", "t", " ", "i", "n", "t", " ", "A", "b", "C", "=", "2", ";">>

\* x=Ab+AbC+MyAb;
UseAb ==
    <<"x", "=", "A", "b", "+", "A", "b", "C", "+", "M", "y", "A", "b", ";">>

\* @"\bAb\b";
RegexAb ==
    <<"@", "\"", "\\", "b", "A", "b", "\\", "b", "\"", ";">>

\* const int A1=3;
DeclA1 ==
    <<"c", "o", "n", "s", "t", " ", "i", "n", "t", " ", "A", "1", "=", "3", ";">>

Fragments == <<DeclMaxRetryCount, DeclAb, DeclAbC, UseAb, RegexAb, DeclA1>>

Files == 1..NumFiles

\* a tree is a set of placements <<fragment, file>>
Placements == (1..Len(Fragments)) \X Files

RECURSIVE SubsetsUpTo(_, _)
SubsetsUpTo(S, k) ==
    IF k = 0 THEN {{}}
    ELSE LET smaller == SubsetsUpTo(S, k - 1)
         IN  smaller \cup {T \cup {x} : T \in smaller, x \in S}

\* the fragments of file f as a number, fragment k counting 2^(k-1)
RECURSIVE FileCode(_, _, _)
FileCode(tree, f, k) ==
    IF k > Len(Fragments) THEN 0
    ELSE (IF <<k, f>> \in tree THEN 2 ^ (k - 1) ELSE 0) + FileCode(tree, f, k + 1)

\* The scripts never look at a file's name and visit the files in any order,
\* so a tree stands for all the trees that hold the same contents under other
\* names: the files are listed by content.
Trees ==
    {tree \in SubsetsUpTo(Placements, MaxFrags) :
        \A f \in 1..(NumFiles - 1) :
            FileCode(tree, f, 1) >= FileCode(tree, f + 1, 1)}

RECURSIVE ContentFrom(_, _, _)
ContentFrom(tree, f, k) ==
    IF k > Len(Fragments) THEN <<>>
    ELSE (IF <<k, f>> \in tree THEN Fragments[k] ELSE <<>>) \o ContentFrom(tree, f, k + 1)

TreeDisk(tree) == [f \in Files |-> ContentFrom(tree, f, 1)]

\* the failures the environment can raise for a file:
\*   "read"   open(..., 'r') / read_text() raises (permission, encoding)
\*   "bak"    v2: open(backup_path, 'w') raises
\*   "open"   the open for writing raises, before the file is truncated
\*   "write"  the file is opened for writing, which truncates it, and the
\*            write or the close raises (disk full, I/O error)
FaultKinds(v) ==
    IF v = "v2" THEN {"read", "bak", "open", "write"} ELSE {"read", "open", "write"}

NoFaults == [f \in Files |-> "none"]

FaultMaps(v) ==
    {fm \in [Files -> {"none"} \cup FaultKinds(v)] :
        Cardinality({f \in Files : fm[f] # "none"}) <= MaxFaults}

InitRun(v, faults) ==
    /\ script = v
    /\ \E tree \in Trees : disk = TreeDisk(tree)
    /\ disk0 = disk
    /\ bak = [f \in Files |-> NoFile]
    /\ bak0 = bak
    /\ fault \in faults
    /\ pc = "scan"
    /\ todo = Files
    /\ mappings = <<>>
    /\ files_changed = 0
    /\ total_replacements = 0
    /\ run = 1
    /\ wfailed = {}
    /\ name = <<>>
    /\ out = <<>>
    /\ apps = 0

--------------------------------------------------------------------------
(* The two loops of a run; rglob's order is the file system's, so each      *)
(* step takes any file the loop has not visited yet                         *)

\* one iteration of the phase-1 loop: the except clause swallows a failed read
ScanFile(f) ==
    /\ pc = "scan"
    /\ f \in todo
    /\ todo' = todo \ {f}
    /\ mappings' = IF fault[f] = "read" THEN mappings
                   ELSE ScanContent(mappings, disk[f], script)
    /\ UNCHANGED <<script, disk, bak, fault, pc, files_changed,
                   total_replacements, run, disk0, bak0, wfailed, convVars>>

\* phase 1 is over; v2's main returns when the table is empty
EndScan ==
    /\ pc = "scan"
    /\ todo = {}
    /\ IF script = "v2" /\ mappings = <<>>
       THEN pc' = "done" /\ todo' = {}
       ELSE pc' = "apply" /\ todo' = Files
    /\ UNCHANGED <<script, disk, bak, fault, mappings, files_changed,
                   total_replacements, run, disk0, bak0, wfailed, convVars>>

\* what a write that raises after the truncation can leave in the file:
\* nothing, or the part of the new text that reached the disk
Truncations(text) == {SubSeq(text, 1, k) : k \in {0, Len(text) \div 2}}

\* one iteration of the phase-2 loop
RewriteFile(f) ==
    /\ pc = "apply"
    /\ f \in todo
    /\ todo' = todo \ {f}
    /\ LET original == disk[f]
           r == Modify(script, mappings, original)
           changed == fault[f] # "read" /\ r.text # original
           backedUp == changed /\ script = "v2" /\ fault[f] # "bak"
           opened == changed /\ fault[f] \notin {"bak", "open"}
           written == opened /\ fault[f] # "write"
       IN  /\ bak' = IF backedUp THEN [bak EXCEPT ![f] = original] ELSE bak
           /\ IF written THEN disk' = [disk EXCEPT ![f] = r.text]
              ELSE IF opened
                   THEN \E rest \in Truncations(r.text) :
                            disk' = [disk EXCEPT ![f] = rest]
                   ELSE disk' = disk
           /\ files_changed' = IF written THEN files_changed + 1 ELSE files_changed
           /\ total_replacements' =
                  IF written THEN total_replacements + r.count ELSE total_replacements
           /\ wfailed' = IF changed /\ ~ written THEN wfailed \cup {f} ELSE wfailed
    /\ UNCHANGED <<script, fault, pc, mappings, run, disk0, bak0, convVars>>

\* the loop is over and the totals are printed
Finish ==
    /\ pc = "apply"
    /\ todo = {}
    /\ pc' = "done"
    /\ UNCHANGED <<runVars, convVars>>

\* between two runs the developer adds code to a file
Edit(f, k) ==
    /\ pc = "done"
    /\ run < MaxRuns
    /\ pc' = "edited"
    /\ disk' = [disk EXCEPT ![f] = disk[f] \o Fragments[k]]
    /\ UNCHANGED <<script, bak, fault, todo, mappings, files_changed,
                   total_replacements, run, disk0, bak0, wfailed, convVars>>

\* the script is started again on the tree as it is now
Rerun ==
    /\ pc \in {"done", "edited"}
    /\ run < MaxRuns
    /\ run' = run + 1
    /\ pc' = "scan"
    /\ todo' = Files
    /\ mappings' = <<>>
    /\ files_changed' = 0
    /\ total_replacements' = 0
    /\ disk0' = disk
    /\ bak0' = bak
    /\ wfailed' = {}
    /\ UNCHANGED <<script, disk, bak, fault, convVars>>

NextRun ==
    \/ \E f \in Files : ScanFile(f)
    \/ EndScan
    \/ \E f \in Files : RewriteFile(f)
    \/ Finish

NextRerun ==
    \/ NextRun
    \/ \E f \in Files, k \in 1..Len(Fragments) : Edit(f, k)
    \/ Rerun

\* convert-constants-v3.py on a tree whose files can all be read and written
InitV3 == InitRun("v3", {NoFaults})

SpecV3 == InitV3 /\ [][NextRun]_vars

\* either script, one run, no I/O failure
Init == \E v \in {"v2", "v3"} : InitRun(v, {NoFaults})

Next == NextRun

Spec == Init /\ [][Next]_vars

\* either script, one run, with I/O failures
InitFaults == InitRun("v3", FaultMaps("v3")) \/ InitRun("v2", FaultMaps("v2"))

SpecFaults == InitFaults /\ [][NextRun]_vars

\* convert-constants-to-uppercase-v2.py, run again and again on one tree
InitV2 == InitRun("v2", {NoFaults})

SpecRerun == InitV2 /\ [][NextRerun]_vars

--------------------------------------------------------------------------
(* Vocabulary of the properties *)

\* w occurs in s at index i with no identifier character on either side
WholeWordAt(s, i, w) ==
    /\ i + Len(w) - 1 <= Len(s)
    /\ \A d \in 1..Len(w) : s[i + d - 1] = w[d]
    /\ (i = 1 \/ s[i - 1] \notin Word)
    /\ (i + Len(w) > Len(s) \/ s[i + Len(w)] \notin Word)

HasWholeWord(s, w) == \E i \in 1..Len(s) : WholeWordAt(s, i, w)

\* the number of whole-word occurrences of w in s
CountWholeWord(s, w) == Cardinality({i \in 1..Len(s) : WholeWordAt(s, i, w)})

\* part occurs in s as a substring
Contains(s, part) ==
    \E i \in 1..Len(s) :
        /\ i + Len(part) - 1 <= Len(s)
        /\ \A d \in 1..Len(part) : s[i + d - 1] = part[d]

Values(m) == {m[i][2] : i \in 1..Len(m)}

\* s read word by word (a word is a maximal run of identifier characters),
\* each word w written as img[w] when w is in the domain of img
RECURSIVE WordByWord(_, _, _)
WordByWord(s, i, img) ==
    IF i > Len(s) THEN <<>>
    ELSE IF s[i] \notin Word THEN <<s[i]>> \o WordByWord(s, i + 1, img)
    ELSE (IF SubSeq(s, i, RunEnd(s, i, Word)) \in DOMAIN img
          THEN img[SubSeq(s, i, RunEnd(s, i, Word))]
          ELSE SubSeq(s, i, RunEnd(s, i, Word)))
         \o WordByWord(s, RunEnd(s, i, Word) + 1, img)

\* the table as a function from each key to its converted name
TableOf(m) == [k \in Keys(m) |-> DictGet(m, k)]

\* s with every whole-word key replaced by its converted name
Renamed(m, s) == WordByWord(s, 1, TableOf(m))

\* s with every whole-word key and every whole-word converted name blanked:
\* the text of s that is no whole-word occurrence of a mapped name
Frame(m, s) == WordByWord(s, 1, [w \in Keys(m) \cup Values(m) |-> <<"#">>])

\* ^[A-Z_0-9]+$ as the properties read it
AllCaps(w) == w # <<>> /\ \A i \in 1..Len(w) : w[i] \in Upper \cup Digit \cup {"_"}

\* the rearrangements of a table
Orders(m) ==
    {[i \in 1..Len(m) |-> m[perm[i]]] : perm \in Permutations(1..Len(m))}

\* const int MAX_RETRY_COUNT = 5;
DeclMaxRetryCountRenamed ==
    <<"c", "o", "n", "s", "t", " ", "i", "n", "t", " ", "M", "A", "X", "_", "R",
      "E", "T", "R", "Y", "_", "C", "O", "U", "N", "T", " ", "=", " ", "5", ";">>

TableBuilt == pc \in {"apply", "done"}

--------------------------------------------------------------------------
(* Properties *)

\* C1: after the rewrite loop of convert-constants-v3.py, on a tree whose
\* files can all be read and written, no file contains a whole-word
\* occurrence of a key of the mapping table, whether the file declares the
\* constant or only refers to it, and every file is its original content
\* with each whole-word key replaced by the same converted name.
C1_NoKeyRemains ==
    (script = "v3" /\ pc = "done") =>
        \A f \in Files :
            /\ \A k \in Keys(mappings) : ~ HasWholeWord(disk[f], k)
            /\ disk[f] = Renamed(mappings, disk0[f])

\* a file that declares nothing but refers to a constant that another file
\* declares (and refers to too) has been rewritten
C1_Witness ==
    /\ script = "v3"
    /\ pc = "done"
    /\ \E f, g \in Files, k \in Keys(mappings) :
           /\ f # g
           /\ FindDecls(disk0[f], "v3") # <<>>
           /\ FindDecls(disk0[g], "v3") = <<>>
           /\ CountWholeWord(disk0[f], k) >= 2
           /\ HasWholeWord(disk0[g], k)
           /\ Contains(disk[f], DictGet(mappings, k))
           /\ Contains(disk[g], DictGet(mappings, k))

\* C2: rewriting alters nothing but the whole-word occurrences of the
\* keys: the text of a file that is no whole-word occurrence of a mapped
\* name, such as a key inside a longer identifier, is the same before and
\* after the run, for either script.
C2_OnlyWholeWordsAltered ==
    pc = "done" =>
        \A f \in Files : Frame(mappings, disk[f]) = Frame(mappings, disk0[f])

\* C3: after convert-constants-to-uppercase-v2.py has run on a tree of
\* readable, writable files, every whole-word occurrence of a declared
\* name that needs conversion is replaced by its converted name; a file with
\* "const int MaxRetryCount = 5;" holds "const int MAX_RETRY_COUNT = 5;".
C3_V2RewritesDeclaredNames ==
    (script = "v2" /\ pc = "done") =>
        \A f \in Files :
            /\ disk[f] = Renamed(mappings, disk0[f])
            /\ Contains(disk0[f], DeclMaxRetryCount)
                   => Contains(disk[f], DeclMaxRetryCountRenamed)

\* C4: a file with no whole-word occurrence of a mapped name is left as it
\* was, byte for byte, and gets no backup file.
C4_UntouchedWithoutOccurrence ==
    TableBuilt =>
        \A f \in Files :
            (\A k \in Keys(mappings) : ~ HasWholeWord(disk0[f], k))
                => disk[f] = disk0[f] /\ bak[f] = NoFile

\* C5: a backup file that exists when a run starts has the same content
\* throughout that run, also when the run rewrites its source file again.
C5_BackupPreserved ==
    \A f \in Files : bak0[f] # NoFile => bak[f] = bak0[f]

\* C6: a failed read or write of one file does not stop the run: a loop is
\* left only when it has visited every file, a file whose write failed has
\* its content of before the write, and files_changed counts the files
\* written without a failure.
C6_RunContinues == pc = "done" => todo = {}

C6_FailedWriteNotCounted ==
    files_changed = Cardinality({f \in Files \ wfailed : disk[f] # disk0[f]})

C6_FailedWriteKeepsContent ==
    \A f \in wfailed : disk[f] = disk0[f]

C6_FailureIsLocal ==
    C6_RunContinues /\ C6_FailedWriteNotCounted /\ C6_FailedWriteKeepsContent

\* C7: the mapping table never holds an identifier that matches
\* ^[A-Z_0-9]+$: every key fails the pattern, every converted name differs
\* from its key and no key is held twice, whatever the files and the order
\* they are read in.
C7_NoUpperCaseKey ==
    /\ \A i \in 1..Len(mappings) :
           /\ ~ AllCaps(mappings[i][1])
           /\ mappings[i][2] # mappings[i][1]
    /\ \A i, j \in 1..Len(mappings) : mappings[i][1] = mappings[j][1] => i = j

\* a scanned file declares A1, which matches the pattern, beside a name
\* that was recorded
C7_Witness ==
    /\ TableBuilt
    /\ mappings # <<>>
    /\ \E f \in Files : Contains(disk0[f], DeclA1) /\ Contains(disk0[f], DeclAb)

\* C8: a string of uppercase letters and underscores is returned unchanged
\* by pascal_to_upper_snake, however often it is applied.
C8_UpperCaseFixed ==
    (pc = "conv" /\ \A i \in 1..Len(name) : name[i] \in Upper \cup {"_"})
        => out = name

C8_Witness ==
    /\ pc = "conv"
    /\ apps = MaxApps
    /\ Len(name) >= 3
    /\ \A i \in 1..Len(name) : name[i] \in Upper \cup {"_"}
    /\ \E i, j \in 1..Len(name) : name[i] \in Upper /\ name[j] = "_"

\* C9: in every table the Name-Mapper builds no converted name is a key,
\* and applying the mappings of the table to a file in any order gives the
\* content the run wrote.
C9_OrderIrrelevant ==
    (script = "v3" /\ pc = "done") =>
        /\ Values(mappings) \cap Keys(mappings) = {}
        /\ \A f \in Files :
               \A m \in Orders(mappings) : ApplyV3(m, disk0[f]) = disk[f]

\* a table of two keys or more, both of them whole words of a rewritten file
C9_Witness ==
    /\ script = "v3"
    /\ pc = "done"
    /\ \E f \in Files, i, j \in 1..Len(mappings) :
           /\ i # j
           /\ HasWholeWord(disk0[f], mappings[i][1])
           /\ HasWholeWord(disk0[f], mappings[j][1])
           /\ disk[f] # disk0[f]

LettersAndDigits(w) == \A i \in 1..Len(w) : w[i] \in Letter \cup Digit

DigitBeforeLower(w) ==
    \E i \in 1..(Len(w) - 1) : w[i] \in Digit /\ w[i + 1] \in Lower

\* C10 as claimed: for every identifier of letters and digits, applying
\* pascal_to_upper_snake again to its result gives the same result.
C10_Idempotent ==
    (pc = "conv" /\ LettersAndDigits(name) /\ apps >= 1)
        => out = pascal_to_upper_snake(name)

\* C10 amended: for every identifier of letters and digits in which no
\* digit stands right before a lowercase letter, applying
\* pascal_to_upper_snake again to its result gives the same result.
C10_IdempotentNoDigitLower ==
    (pc = "conv" /\ LettersAndDigits(name) /\ ~ DigitBeforeLower(name) /\ apps >= 1)
        => out = pascal_to_upper_snake(name)

\* a name with a digit before an uppercase letter, converted twice
C10_Witness ==
    /\ pc = "conv"
    /\ apps >= 2
    /\ LettersAndDigits(name)
    /\ ~ DigitBeforeLower(name)
    /\ \E i \in 1..(Len(name) - 1) : name[i] \in Digit /\ name[i + 1] \in Upper
    /\ \E i \in 1..Len(name) : name[i] \in Lower
    /\ out # ToUpper(name)

==========================================================================
